---- MODULE Spec2Model ----
(***************************************************************************)
(* Model of the Flossy web front-end: in flossy_web/app.js the call button *)
(* and its WebSocket, the notification opt-in handler and the chat widget; *)
(* in flossy_web/firebase-messaging-sw.js the background worker.           *)
(* Every event handler runs to completion (one UI event loop); an `await`  *)
(* splits a handler into the steps between its suspension points.          *)
(***************************************************************************)
EXTENDS Integers, Sequences, FiniteSets, TLC

\* ------------------------------------------------------------------------
\* Bounds of the model
\* ------------------------------------------------------------------------
MaxSockets == 3     \* WebSockets the call button may create in one run
MaxURLs == 2        \* object URLs created by received audio blobs
MaxSends == 2       \* chat sends (requests to /chat) in one run
MaxNotify == 3      \* runs of the notification opt-in handler
MaxPushes == 1      \* notifications on display at one time
MaxWindows == 2     \* page windows the worker's clients list may hold

VARIABLES
  sockets,        \* every WebSocket created so far: [readyState, closeCalled]
  ws,             \* `let ws`: index into sockets, 0 while undefined
  callBtnText,    \* callBtn.textContent
  audioSrc,       \* audioPlayer.src: index into objectURLs, 0 while unset
  objectURLs,     \* blobs for which URL.createObjectURL was called, in order
  userInput,      \* userInput.value
  chatbox,        \* children of the chatbox element, in document order
  requests,       \* runs of the send handler past the empty check
  lastHandler,    \* the handler that ran in the last step
  notifyRuns,     \* runs of the notify-btn handler
  alerts,         \* alert() dialogs shown, in order
  consoleErrors,  \* console.error() entries, in order: [text, run]
  notifications,  \* notifications on display, in the order shown
  clients,        \* URLs of the worker's window clients, in matchAll order
  focused         \* index into clients of the focused window, 0 if none

callVars == <<sockets, ws, callBtnText, audioSrc, objectURLs>>
chatVars == <<userInput, chatbox, requests>>
pushVars == <<notifyRuns, alerts>>
workerVars == <<notifications, clients, focused>>
vars == <<sockets, ws, callBtnText, audioSrc, objectURLs, userInput, chatbox,
          requests, lastHandler, notifyRuns, alerts, consoleErrors,
          notifications, clients, focused>>

\* ------------------------------------------------------------------------
\* Call button and WebSocket (app.js 1-39)
\* ------------------------------------------------------------------------
IdleGlyph == "U+1F4DE"
EndLabel == "U+1F534 End"

Blobs == {"blobA", "blobB"}
TextFrames == {"text"}
Frames == Blobs \cup TextFrames

IsBlob(data) == data \in Blobs

SocketIds == 1..Len(sockets)

\* the test written as if (ws)
WsExists == ws # 0

\* ws && ws.readyState === WebSocket.OPEN
WsIsOpen == ws # 0 /\ sockets[ws].readyState = "OPEN"

\* new WebSocket(wsUrl): a socket starts in CONNECTING
NewWebSocket == [readyState |-> "CONNECTING", closeCalled |-> FALSE]

\* ws.close() on an open socket starts the closing handshake
WsClose(s) == [sockets EXCEPT ![s] = [readyState |-> "CLOSING", closeCalled |-> TRUE]]

callBtn_click ==
  /\ IF WsIsOpen
       THEN /\ sockets' = WsClose(ws)
            /\ callBtnText' = IdleGlyph
            /\ ws' = ws
       ELSE /\ Len(sockets) < MaxSockets
            /\ sockets' = Append(sockets, NewWebSocket)
            /\ ws' = Len(sockets) + 1
            /\ callBtnText' = callBtnText
  /\ lastHandler' = "callBtn_click"
  /\ UNCHANGED workerVars
  /\ UNCHANGED <<audioSrc, objectURLs, chatVars, consoleErrors, pushVars>>

\* the transport establishes socket s: readyState becomes OPEN, onopen runs
ws_onopen(s) ==
  /\ sockets[s].readyState = "CONNECTING"
  /\ sockets' = [sockets EXCEPT ![s].readyState = "OPEN"]
  /\ callBtnText' = EndLabel
  /\ lastHandler' = "ws_onopen"
  /\ UNCHANGED workerVars
  /\ UNCHANGED <<ws, audioSrc, objectURLs, chatVars, consoleErrors, pushVars>>

\* onmessage that leaves a source already set in place
ws_onmessage_KeepFirst(s, data) ==
  /\ sockets[s].readyState = "OPEN"
  /\ IF IsBlob(data)
       THEN /\ Len(objectURLs) < MaxURLs
            /\ objectURLs' = Append(objectURLs, data)
            /\ audioSrc' = IF audioSrc = 0 THEN Len(objectURLs) + 1 ELSE audioSrc
       ELSE UNCHANGED <<objectURLs, audioSrc>>
  /\ lastHandler' = "ws_onmessage"
  /\ UNCHANGED workerVars
  /\ UNCHANGED <<sockets, ws, callBtnText, chatVars, consoleErrors, pushVars>>

\* object URLs still allocated: app.js never calls URL.revokeObjectURL, so
\* every URL created stays allocated
LiveObjectURLs == 1..Len(objectURLs)

\* a frame arrives on the open socket s: onmessage runs
ws_onmessage(s, data) ==
  /\ sockets[s].readyState = "OPEN"
  /\ IF IsBlob(data)
       THEN /\ Len(objectURLs) < MaxURLs
            /\ objectURLs' = Append(objectURLs, data)
            /\ audioSrc' = Len(objectURLs) + 1
       ELSE UNCHANGED <<objectURLs, audioSrc>>
  /\ lastHandler' = "ws_onmessage"
  /\ UNCHANGED workerVars
  /\ UNCHANGED <<sockets, ws, callBtnText, chatVars, consoleErrors, pushVars>>

\* onclose that resets the label only for a close the user asked for
ws_onclose_OwnCloseOnly(s) ==
  /\ sockets[s].readyState # "CLOSED"
  /\ sockets' = [sockets EXCEPT ![s].readyState = "CLOSED"]
  /\ callBtnText' = IF sockets[s].closeCalled THEN IdleGlyph ELSE callBtnText
  /\ lastHandler' = "ws_onclose"
  /\ UNCHANGED workerVars
  /\ UNCHANGED <<ws, audioSrc, objectURLs, chatVars, consoleErrors, pushVars>>

\* socket s closes (handshake done, peer close, network failure or failed
\* connection attempt): readyState becomes CLOSED, onclose runs
ws_onclose(s) ==
  /\ sockets[s].readyState # "CLOSED"
  /\ sockets' = [sockets EXCEPT ![s].readyState = "CLOSED"]
  /\ callBtnText' = IdleGlyph
  /\ lastHandler' = "ws_onclose"
  /\ UNCHANGED workerVars
  /\ UNCHANGED <<ws, audioSrc, objectURLs, chatVars, consoleErrors, pushVars>>

\* ------------------------------------------------------------------------
\* Chat widget (app.js 72-109)
\* ------------------------------------------------------------------------
\* Text is a sequence of characters; "<b>" stands for a piece of HTML markup.
\* Values the user may leave in the input field before a click:
Inputs == {<<>>, <<" ">>, <<"a">>, <<" ", "a", " ">>, <<"a", " ", "a">>}

Placeholder == <<"Hmm... I'm thinking!">>
ErrorText == <<"Error connecting to server">>

\* String.prototype.trim(): drops leading and trailing white space
RECURSIVE TrimStart(_)
TrimStart(s) == IF s # <<>> /\ Head(s) = " " THEN TrimStart(Tail(s)) ELSE s
RECURSIVE TrimEnd(_)
TrimEnd(s) ==
  IF s # <<>> /\ s[Len(s)] = " " THEN TrimEnd(SubSeq(s, 1, Len(s) - 1)) ELSE s
\* the input read without trimming
TrimOmitted(s) == s

Trim(s) == TrimEnd(TrimStart(s))

\* div.innerHTML = `<span ...>${text}</span>`: the text is parsed as HTML, so
\* markup in it becomes elements and is no part of the text the entry shows
IsMarkup(c) == c = "<b>"
InnerHTMLText(text) == SelectSeq(text, LAMBDA c : ~IsMarkup(c))

DivClass(sender) == IF sender = "user" THEN "text-right my-1" ELSE "text-left my-1"
SpanClass(sender) ==
  IF sender = "user" THEN "bg-blue-600 text-white" ELSE "bg-gray-300 text-black"

\* the div appendMessage(sender, text) builds; run is the run of the send
\* handler that made the call
MessageDiv(sender, text, run) ==
  [className |-> DivClass(sender),
   spanClass |-> SpanClass(sender),
   text |-> InnerHTMLText(text),
   run |-> run]

\* the div inserted before the first child instead of appended
prependMessage(box, sender, text, run) == <<MessageDiv(sender, text, run)>> \o box

\* chatbox.appendChild(div), on the list of the chatbox's children
appendMessage(box, sender, text, run) == Append(box, MessageDiv(sender, text, run))

\* Responses of POST /chat: a status, and a body that is not JSON, the JSON
\* value null, or a JSON object with or without a reply field
Statuses == {200, 500}
Replies == {<<>>, <<"a">>, <<"<b>", "a">>}
Bodies ==
  {[kind |-> "malformed", hasReply |-> FALSE, reply |-> <<>>],
   [kind |-> "null", hasReply |-> FALSE, reply |-> <<>>],
   [kind |-> "object", hasReply |-> FALSE, reply |-> <<>>]}
  \cup {[kind |-> "object", hasReply |-> TRUE, reply |-> t] : t \in Replies}

\* data.reply || "Hmm... I'm thinking!": an absent or empty reply is falsy
ReplyOrPlaceholder(data) ==
  IF data.hasReply /\ data.reply # <<>> THEN data.reply ELSE Placeholder

RunIds == 1..Len(requests)

\* the user edits the input field
userInput_edit(v) ==
  /\ v # userInput
  /\ userInput' = v
  /\ lastHandler' = "userInput_edit"
  /\ UNCHANGED workerVars
  /\ UNCHANGED <<chatbox, requests, consoleErrors, callVars, pushVars>>

\* sendBtn click, up to the await of fetch; status is res.status, 0 while
\* there is no response
sendBtn_click ==
  LET text == Trim(userInput) IN
  /\ IF text = <<>>
       THEN UNCHANGED <<userInput, chatbox, requests>>
       ELSE /\ Len(requests) < MaxSends
            /\ chatbox' = appendMessage(chatbox, "user", text, Len(requests) + 1)
            /\ userInput' = <<>>
            /\ requests' = Append(requests,
                             [message |-> text, pc |-> "fetch", status |-> 0])
  /\ lastHandler' = "sendBtn_click"
  /\ UNCHANGED workerVars
  /\ UNCHANGED <<consoleErrors, callVars, pushVars>>

\* a catch block that logs and appends nothing
ChatCatchLogOnly(r) ==
  /\ consoleErrors' = Append(consoleErrors, [text |-> "Chat error:", run |-> r])
  /\ chatbox' = chatbox
  /\ requests' = [requests EXCEPT ![r].pc = "done", ![r].status = 0]

\* the catch block of the send handler; the handler returns
ChatCatch(r) ==
  /\ consoleErrors' = Append(consoleErrors, [text |-> "Chat error:", run |-> r])
  /\ chatbox' = appendMessage(chatbox, "flossy", ErrorText, r)
  /\ requests' = [requests EXCEPT ![r].pc = "done", ![r].status = 0]

\* fetch resolves with a response, whatever its status; the handler goes on
\* to await res.json()
fetch_resolve(r, status) ==
  /\ requests[r].pc = "fetch"
  /\ requests' = [requests EXCEPT ![r].pc = "json", ![r].status = status]
  /\ lastHandler' = "fetch_resolve"
  /\ UNCHANGED workerVars
  /\ UNCHANGED <<userInput, chatbox, consoleErrors, callVars, pushVars>>

\* the handler without its try block: the rejection ends the run uncaught
fetch_reject_Uncaught(r) ==
  /\ requests[r].pc = "fetch"
  /\ requests' = [requests EXCEPT ![r].pc = "uncaught"]
  /\ lastHandler' = "fetch_reject"
  /\ UNCHANGED workerVars
  /\ UNCHANGED <<userInput, chatbox, consoleErrors, callVars, pushVars>>

\* fetch rejects (network error)
fetch_reject(r) ==
  /\ requests[r].pc = "fetch"
  /\ ChatCatch(r)
  /\ lastHandler' = "fetch_reject"
  /\ UNCHANGED workerVars
  /\ UNCHANGED <<userInput, callVars, pushVars>>

\* res.json() settles once the body has been read: it rejects on a body that
\* is not JSON; on null, data.reply throws; otherwise the reply or the
\* placeholder is appended and the handler returns
res_json(r, data) ==
  /\ requests[r].pc = "json"
  /\ IF data.kind = "object"
       THEN /\ chatbox' = appendMessage(chatbox, "flossy", ReplyOrPlaceholder(data), r)
            /\ requests' = [requests EXCEPT ![r].pc = "done", ![r].status = 0]
            /\ UNCHANGED consoleErrors
       ELSE ChatCatch(r)
  /\ lastHandler' = "res_json"
  /\ UNCHANGED workerVars
  /\ UNCHANGED <<userInput, callVars, pushVars>>

\* ------------------------------------------------------------------------
\* Notification opt-in (app.js 57-70)
\* ------------------------------------------------------------------------
EnabledText == "Notifications enabled!"
DeniedText == "Permission denied for notifications."

\* what Notification.requestPermission() may resolve to
Permissions == {"granted", "denied", "default"}

NotifyIds == 1..Len(notifyRuns)

\* notify-btn click, up to the await of Notification.requestPermission()
notifyBtn_click ==
  /\ Len(notifyRuns) < MaxNotify
  /\ notifyRuns' = Append(notifyRuns,
                     [pc |-> "permission", permission |-> "pending", token |-> "none"])
  /\ lastHandler' = "notifyBtn_click"
  /\ UNCHANGED workerVars
  /\ UNCHANGED <<alerts, consoleErrors, callVars, chatVars>>

\* the test written as permission !== "denied"
PermissionNotDenied(permission) == permission # "denied"

\* the branch taken once the permission is known: permission === "granted"
PermissionGranted(permission) == permission = "granted"

\* requestPermission() resolves: getToken() is called if granted, else the
\* denial is alerted and the handler returns
requestPermission_resolve(n, permission) ==
  /\ notifyRuns[n].pc = "permission"
  /\ IF PermissionGranted(permission)
       THEN /\ notifyRuns' = [notifyRuns EXCEPT ![n] =
                 [pc |-> "token", permission |-> permission, token |-> "pending"]]
            /\ UNCHANGED alerts
       ELSE /\ notifyRuns' = [notifyRuns EXCEPT ![n] =
                 [pc |-> "done", permission |-> permission, token |-> "none"]]
            /\ alerts' = Append(alerts, [run |-> n, text |-> DeniedText])
  /\ lastHandler' = "requestPermission_resolve"
  /\ UNCHANGED workerVars
  /\ UNCHANGED <<consoleErrors, callVars, chatVars>>

\* an empty catch block
NotifyCatchEmpty(n) == UNCHANGED <<consoleErrors, alerts>>

\* the catch block of the notify handler
NotifyCatch(n) ==
  /\ consoleErrors' = Append(consoleErrors,
                        [text |-> "Error enabling notifications:", run |-> n])
  /\ UNCHANGED alerts

\* requestPermission() rejects
requestPermission_reject(n) ==
  /\ notifyRuns[n].pc = "permission"
  /\ notifyRuns' = [notifyRuns EXCEPT ![n] =
       [pc |-> "done", permission |-> "rejected", token |-> "none"]]
  /\ NotifyCatch(n)
  /\ lastHandler' = "requestPermission_reject"
  /\ UNCHANGED workerVars
  /\ UNCHANGED <<callVars, chatVars>>

\* messaging.getToken() resolves: the token is logged, the confirmation alerted
getToken_resolve(n) ==
  /\ notifyRuns[n].pc = "token"
  /\ notifyRuns' = [notifyRuns EXCEPT ![n].pc = "done", ![n].token = "resolved"]
  /\ alerts' = Append(alerts, [run |-> n, text |-> EnabledText])
  /\ lastHandler' = "getToken_resolve"
  /\ UNCHANGED workerVars
  /\ UNCHANGED <<consoleErrors, callVars, chatVars>>

\* messaging.getToken() rejects
getToken_reject(n) ==
  /\ notifyRuns[n].pc = "token"
  /\ notifyRuns' = [notifyRuns EXCEPT ![n].pc = "done", ![n].token = "rejected"]
  /\ NotifyCatch(n)
  /\ lastHandler' = "getToken_reject"
  /\ UNCHANGED workerVars
  /\ UNCHANGED <<callVars, chatVars>>

\* ------------------------------------------------------------------------
\* Background worker (firebase-messaging-sw.js)
\* ------------------------------------------------------------------------
\* A field of a payload is missing (undefined) or holds a string
Absent == "(undefined)"
DefaultTitle == "FlossyAI Notification"
DefaultBody == "You have a new message from FlossyAI!"
DefaultIcon == "/static/flossy-icon.png"
DefaultBadge == "/static/flossy-badge.png"
SiteRoot == "/"

\* a || b on strings: a unless it is undefined or empty
Truthy(v) == v # Absent /\ v # ""
Or(a, b) == IF Truthy(a) THEN a ELSE b

EmptyObject ==
  [title |-> Absent, body |-> Absent, icon |-> Absent, badge |-> Absent, url |-> Absent]

\* payload.notification: {title, body, icon}; payload.data: {title, body,
\* icon, badge, url}. Fields a part does not carry are Absent.
NotificationParts ==
  {[EmptyObject EXCEPT !.title = t, !.body = b] :
     t \in {Absent, "", "Reminder"}, b \in {Absent, "Brush your teeth"}}
  \cup {[EmptyObject EXCEPT !.title = "Reminder", !.icon = "/n.png"]}
DataParts ==
  {[EmptyObject EXCEPT !.title = t, !.body = b, !.url = u] :
     t \in {Absent, "T"}, b \in {Absent, "B"}, u \in {Absent, "", "/visit"}}
  \cup {[EmptyObject EXCEPT !.icon = "/d.png", !.badge = "/b.png", !.url = "/visit"]}
PayloadOf(hn, n, hd, d) ==
  [hasNotification |-> hn, notification |-> n, hasData |-> hd, data |-> d]
Payloads ==
  {PayloadOf(TRUE, n, TRUE, d) : n \in NotificationParts, d \in DataParts}
  \cup {PayloadOf(TRUE, n, FALSE, EmptyObject) : n \in NotificationParts}
  \cup {PayloadOf(FALSE, EmptyObject, TRUE, d) : d \in DataParts}
  \cup {PayloadOf(FALSE, EmptyObject, FALSE, EmptyObject)}

\* payload.notification || {} and payload.data || {}
PayloadNotification(payload) ==
  IF payload.hasNotification THEN payload.notification ELSE EmptyObject
PayloadData(payload) == IF payload.hasData THEN payload.data ELSE EmptyObject

\* a title that prefers the data field
NotificationTitleDataFirst(notification, data) ==
  Or(data.title, Or(notification.title, DefaultTitle))

NotificationTitle(notification, data) ==
  Or(notification.title, Or(data.title, DefaultTitle))
NotificationBody(notification, data) ==
  Or(notification.body, Or(data.body, DefaultBody))
NotificationIcon(notification, data) ==
  Or(notification.icon, Or(data.icon, DefaultIcon))
NotificationBadge(data) == Or(data.badge, DefaultBadge)

\* the click target left as the payload gave it
NotificationURLNoDefault(data) == data.url

\* data: { url: data.url || "/" }
NotificationURL(data) == Or(data.url, SiteRoot)

\* the notification showNotification(notificationTitle, notificationOptions)
\* displays
ShownNotification(payload) ==
  LET notification == PayloadNotification(payload)
      data == PayloadData(payload)
  IN [title |-> NotificationTitle(notification, data),
      body |-> NotificationBody(notification, data),
      icon |-> NotificationIcon(notification, data),
      badge |-> NotificationBadge(data),
      url |-> NotificationURL(data)]

ShownIds == 1..Len(notifications)

\* notification.close(): the notification leaves the display
CloseNotification(i) ==
  SubSeq(notifications, 1, i - 1) \o SubSeq(notifications, i + 1, Len(notifications))

\* messaging.onBackgroundMessage callback
onBackgroundMessage(payload) ==
  /\ Len(notifications) < MaxPushes
  /\ notifications' = Append(notifications, ShownNotification(payload))
  /\ lastHandler' = "onBackgroundMessage"
  /\ UNCHANGED <<clients, focused, callVars, chatVars, pushVars, consoleErrors>>

\* the user opens a page of the site in a new window
window_open ==
  /\ Len(clients) < MaxWindows
  /\ clients' = Append(clients, SiteRoot)
  /\ focused' = Len(clients) + 1
  /\ lastHandler' = "window_open"
  /\ UNCHANGED <<notifications, callVars, chatVars, pushVars, consoleErrors>>

\* notificationclick on the displayed notification i: it is closed; the first
\* window client is navigated and focused, or a window is opened if none
notificationclick(i) ==
  LET url == notifications[i].url IN
  /\ notifications' = CloseNotification(i)
  /\ IF clients # <<>>
       THEN /\ clients' = IF Truthy(url) THEN [clients EXCEPT ![1] = url] ELSE clients
            /\ focused' = 1
       ELSE IF Truthy(url)
         THEN /\ clients' = <<url>>
              /\ focused' = 1
         ELSE UNCHANGED <<clients, focused>>
  /\ lastHandler' = "notificationclick"
  /\ UNCHANGED <<callVars, chatVars, pushVars, consoleErrors>>

InitCall ==
  /\ sockets = <<>>
  /\ ws = 0
  /\ callBtnText = IdleGlyph
  /\ audioSrc = 0
  /\ objectURLs = <<>>

InitChat ==
  /\ userInput = <<>>
  /\ chatbox = <<>>
  /\ requests = <<>>
  /\ consoleErrors = <<>>

InitPush ==
  /\ notifyRuns = <<>>
  /\ alerts = <<>>

InitWorker ==
  /\ notifications = <<>>
  /\ clients = <<>>
  /\ focused = 0

Init ==
  /\ InitCall
  /\ InitChat
  /\ InitPush
  /\ InitWorker
  /\ lastHandler = "none"

NextCall ==
  \/ callBtn_click
  \/ \E s \in SocketIds : ws_onopen(s)
  \/ \E s \in SocketIds : \E data \in Frames : ws_onmessage(s, data)
  \/ \E s \in SocketIds : ws_onclose(s)

SpecCall == Init /\ [][NextCall]_vars

NextChat ==
  \/ \E v \in Inputs : userInput_edit(v)
  \/ sendBtn_click
  \/ \E r \in RunIds : \E status \in Statuses : fetch_resolve(r, status)
  \/ \E r \in RunIds : fetch_reject(r)
  \/ \E r \in RunIds : \E data \in Bodies : res_json(r, data)

SpecChat == Init /\ [][NextChat]_vars

NextPush ==
  \/ notifyBtn_click
  \/ \E n \in NotifyIds : \E permission \in Permissions :
       requestPermission_resolve(n, permission)
  \/ \E n \in NotifyIds : requestPermission_reject(n)
  \/ \E n \in NotifyIds : getToken_resolve(n)
  \/ \E n \in NotifyIds : getToken_reject(n)

SpecPush == Init /\ [][NextPush]_vars

NextWorker ==
  \/ \E payload \in Payloads : onBackgroundMessage(payload)
  \/ window_open
  \/ \E i \in ShownIds : notificationclick(i)

SpecWorker == Init /\ [][NextWorker]_vars

\* The page's components share no variable but the console, whose entries
\* name their handler. NextAlone takes the steps of one component of app.js
\* while the other two are as at page load.
CallAtLoad == sockets = <<>>
ChatAtLoad == requests = <<>> /\ userInput = <<>>
PushAtLoad == notifyRuns = <<>>

NextAlone ==
  \/ ChatAtLoad /\ PushAtLoad /\ NextCall
  \/ CallAtLoad /\ PushAtLoad /\ NextChat
  \/ CallAtLoad /\ ChatAtLoad /\ NextPush

SpecAlone == Init /\ [][NextAlone]_vars

Next == NextCall \/ NextChat \/ NextPush \/ NextWorker

Spec == Init /\ [][Next]_vars

\* ------------------------------------------------------------------------
\* Properties
\* ------------------------------------------------------------------------
ActiveSockets == {s \in SocketIds : sockets[s].readyState \in {"CONNECTING", "OPEN"}}

\* C1: at most one WebSocket created by the call button is connecting or
\* open at any time.
C1_AtMostOneActive == Cardinality(ActiveSockets) <= 1

\* C2: the label is the "end call" label exactly when the connection held in
\* ws is open, and the idle glyph exactly when it is not.
C2_LabelMatchesConnection ==
  /\ callBtnText \in {IdleGlyph, EndLabel}
  /\ callBtnText = EndLabel <=> WsIsOpen

\* C3: a close event on a socket the user did not close (it was connecting or
\* open) leaves the label at the idle glyph, the label a closing click leaves.
C3_RemoteCloseResetsLabel ==
  [][\A s \in SocketIds :
       /\ (sockets[s].readyState \in {"CONNECTING", "OPEN"}
           /\ sockets'[s].readyState = "CLOSED") => callBtnText' = IdleGlyph
       /\ (sockets[s].readyState = "OPEN"
           /\ sockets'[s].readyState = "CLOSING") => callBtnText' = IdleGlyph]_vars

C3_Witness ==
  /\ lastHandler = "ws_onclose"
  /\ callBtnText = IdleGlyph
  /\ \E s \in SocketIds : sockets[s].readyState = "CLOSED" /\ ~sockets[s].closeCalled
  /\ \E s \in SocketIds : sockets[s].readyState = "CLOSED" /\ sockets[s].closeCalled

IsBlank(s) == \A i \in 1..Len(s) : s[i] = " "

\* C4: a send click on an empty or whitespace-only input changes nothing: no
\* entry, no request, the input and the console as they were.
C4_BlankSendIsNoOp ==
  [][(lastHandler' = "sendBtn_click" /\ IsBlank(userInput))
       => UNCHANGED <<userInput, chatbox, requests, consoleErrors>>]_vars

C4_Witness ==
  /\ lastHandler = "sendBtn_click"
  /\ userInput = <<" ">>
  /\ chatbox = <<>>
  /\ requests = <<>>

UserEntries(r) ==
  {i \in 1..Len(chatbox) : chatbox[i].run = r /\ chatbox[i].className = DivClass("user")}
AgentEntries(r) ==
  {i \in 1..Len(chatbox) : chatbox[i].run = r /\ chatbox[i].className = DivClass("flossy")}

\* C5: every send of a non-blank input has exactly one user entry and one
\* request; once its request has completed it has exactly one agent-side
\* entry, after the user entry; the click clears the input (after a send
\* click the input holds no text: it was blank or has been cleared).
C5_OneUserThenOneAgent ==
  /\ \A i \in 1..Len(chatbox) : chatbox[i].run \in RunIds
  /\ \A r \in RunIds :
       /\ Cardinality(UserEntries(r)) = 1
       /\ Cardinality(AgentEntries(r)) = IF requests[r].pc = "done" THEN 1 ELSE 0
       /\ \A u \in UserEntries(r) : \A a \in AgentEntries(r) : u < a
       /\ \A u \in UserEntries(r) : chatbox[u].text = requests[r].message
  /\ lastHandler = "sendBtn_click" => IsBlank(userInput)

C5_Witness ==
  /\ Len(requests) = MaxSends
  /\ \A r \in RunIds : requests[r].pc = "done"
  /\ \E i \in 1..Len(chatbox) : chatbox[i].text = ErrorText
  /\ \E i \in 1..Len(chatbox) :
       chatbox[i].className = DivClass("flossy") /\ chatbox[i].text = <<"a">>

\* C6: a request that fails, by network error, by a non-2xx status or by a
\* body that is not JSON, gets the fixed error message as its agent-side entry.
C6_FailureAppendsError ==
  [][\A r \in RunIds :
       /\ (requests[r].pc # "done" /\ requests'[r].pc = "done"
           /\ requests[r].status # 200)
            => chatbox' = Append(chatbox, MessageDiv("flossy", ErrorText, r))
       /\ \A data \in Bodies :
            (res_json(r, data) /\ data.kind = "malformed")
              => chatbox' = Append(chatbox, MessageDiv("flossy", ErrorText, r))]_vars

\* C7: on a 2xx response with a JSON object body the agent entry's text is
\* exactly the reply field when present, and the placeholder iff it is absent.
C7_ReplyTextExact ==
  [][\A r \in RunIds : \A data \in Bodies :
       (res_json(r, data) /\ requests[r].status = 200 /\ data.kind = "object")
         => /\ Len(chatbox') = Len(chatbox) + 1
            /\ chatbox'[Len(chatbox')].text =
                 IF data.hasReply THEN data.reply ELSE Placeholder]_vars

\* C8: the transcript is append-only: every step leaves the earlier transcript
\* as a prefix of the later one.
C8_AppendOnly ==
  [][/\ Len(chatbox') >= Len(chatbox)
     /\ SubSeq(chatbox', 1, Len(chatbox)) = chatbox]_vars

C8_Witness ==
  /\ Len(chatbox) = 2 * MaxSends
  /\ chatbox[2].className = DivClass("user")

AlertsOf(n) == SelectSeq(alerts, LAMBDA a : a.run = n)
ErrorsOf(n) ==
  SelectSeq(consoleErrors,
            LAMBDA e : e.run = n /\ e.text = "Error enabling notifications:")

\* C9: when the permission request resolves to anything but granted, the
\* denial is alerted and getToken is not called in that run.
C9_DeniedNoToken ==
  \A n \in NotifyIds :
    notifyRuns[n].permission \in {"denied", "default"}
      => /\ notifyRuns[n].pc = "done"
         /\ notifyRuns[n].token = "none"
         /\ AlertsOf(n) = <<[run |-> n, text |-> DeniedText]>>

C9_Witness ==
  /\ \E n \in NotifyIds : notifyRuns[n].permission = "default"
  /\ \E n \in NotifyIds : notifyRuns[n].permission = "denied"
  /\ \E n \in NotifyIds : notifyRuns[n].token = "resolved"

\* C10 as claimed: after a granted permission getToken is called; its success
\* alerts the confirmation; its failure shows the user an error and no
\* confirmation.
C10_TokenFailureSurfaced ==
  \A n \in NotifyIds :
    /\ notifyRuns[n].permission = "granted" => notifyRuns[n].token # "none"
    /\ notifyRuns[n].token = "resolved"
         => AlertsOf(n) = <<[run |-> n, text |-> EnabledText]>>
    /\ notifyRuns[n].token = "rejected"
         => /\ Len(AlertsOf(n)) = 1
            /\ AlertsOf(n)[1].text # EnabledText

\* C10 amended: after a granted permission getToken is called; its success
\* alerts the confirmation; its failure is logged with console.error and
\* nothing, neither an error nor the confirmation, is shown to the user.
C10_TokenFailureLogged ==
  \A n \in NotifyIds :
    /\ notifyRuns[n].permission = "granted" => notifyRuns[n].token # "none"
    /\ notifyRuns[n].token = "resolved"
         => /\ AlertsOf(n) = <<[run |-> n, text |-> EnabledText]>>
            /\ ErrorsOf(n) = <<>>
    /\ notifyRuns[n].token = "rejected"
         => /\ AlertsOf(n) = <<>>
            /\ Len(ErrorsOf(n)) = 1

C10_Witness ==
  /\ \E n \in NotifyIds : notifyRuns[n].token = "rejected"
  /\ \E n \in NotifyIds : notifyRuns[n].token = "resolved"

Present(v) == v # Absent
FirstPresent(a, b, c) == IF Present(a) THEN a ELSE IF Present(b) THEN b ELSE c
FirstNonEmpty(a, b, c) == IF Truthy(a) THEN a ELSE IF Truthy(b) THEN b ELSE c
LastShown == notifications'[Len(notifications')]

\* C11 as claimed: each payload shows exactly one notification, whose title
\* and body are the notification field's if it has one, else the data
\* field's if it has one, else the default.
C11_TitleBodyFirstPresent ==
  [][\A payload \in Payloads :
       onBackgroundMessage(payload) =>
         /\ Len(notifications') = Len(notifications) + 1
         /\ SubSeq(notifications', 1, Len(notifications)) = notifications
         /\ LastShown.title = FirstPresent(PayloadNotification(payload).title,
                                           PayloadData(payload).title, DefaultTitle)
         /\ LastShown.body = FirstPresent(PayloadNotification(payload).body,
                                          PayloadData(payload).body, DefaultBody)]_vars

\* C11 amended: each payload shows exactly one notification, whose title and
\* body are the notification field's if it has a non-empty one, else the data
\* field's if it has a non-empty one, else the default.
C11_TitleBodyFirstNonEmpty ==
  [][\A payload \in Payloads :
       onBackgroundMessage(payload) =>
         /\ Len(notifications') = Len(notifications) + 1
         /\ SubSeq(notifications', 1, Len(notifications)) = notifications
         /\ LastShown.title = FirstNonEmpty(PayloadNotification(payload).title,
                                            PayloadData(payload).title, DefaultTitle)
         /\ LastShown.body = FirstNonEmpty(PayloadNotification(payload).body,
                                           PayloadData(payload).body, DefaultBody)]_vars

C11_Witness ==
  /\ lastHandler = "onBackgroundMessage"
  /\ \E i \in ShownIds :
       notifications[i].title = "T" /\ notifications[i].body = DefaultBody

\* C12: a click closes the notification and leaves a window focused at the
\* notification's URL: the first existing window, navigated, or a new window
\* when there is none; that URL is the payload's data.url, or "/" when the
\* payload carried none (no url field, or an empty one).
C12_ClickTarget ==
  [][/\ \A payload \in Payloads :
          onBackgroundMessage(payload) =>
            LastShown.url = IF Truthy(PayloadData(payload).url)
                              THEN PayloadData(payload).url ELSE SiteRoot
     /\ \A i \in ShownIds :
          notificationclick(i) =>
            /\ Len(notifications') = Len(notifications) - 1
            /\ focused' # 0
            /\ clients'[focused'] = notifications[i].url
            /\ Len(clients') = IF clients = <<>> THEN 1 ELSE Len(clients)]_vars

C12_Witness ==
  /\ lastHandler = "notificationclick"
  /\ notifications = <<>>
  /\ focused = 1
  /\ clients = <<"/visit">>

\* C13: a binary message makes the audio source the URL of that payload; a
\* non-binary message changes neither the audio source, nor the label, nor
\* any connection.
C13_LatestBlobPlays ==
  [][\A s \in SocketIds : \A data \in Frames :
       ws_onmessage(s, data) =>
         IF data \in Blobs
           THEN /\ audioSrc' = Len(objectURLs')
                /\ objectURLs'[audioSrc'] = data
                /\ UNCHANGED <<callBtnText, sockets, ws>>
           ELSE UNCHANGED <<audioSrc, objectURLs, callBtnText, sockets, ws>>]_vars

C13_Witness ==
  /\ lastHandler = "ws_onmessage"
  /\ Len(objectURLs) = 2
  /\ objectURLs[1] # objectURLs[2]
  /\ audioSrc = 2

\* C14: at most one object URL is allocated and unreleased at any time.
C14_AtMostOneLiveHandle == Cardinality(LiveObjectURLs) <= 1

\* C16: a socket that goes from connecting to closed leaves the label at the
\* idle glyph and surfaces nothing; the label turns to the end label only
\* when a socket opens and is the idle glyph whenever no socket is open; and
\* a click starts a new connection unless the socket in ws is open (then it
\* closes that socket, and the click after it starts one).
C16_FailedConnectStaysIdle ==
  [][/\ \A s \in SocketIds :
          (sockets[s].readyState = "CONNECTING" /\ sockets'[s].readyState = "CLOSED")
            => /\ callBtnText' = IdleGlyph
               /\ UNCHANGED <<alerts, consoleErrors, chatbox>>
     /\ (callBtnText' = EndLabel /\ callBtnText # EndLabel)
          => \E s \in SocketIds :
               sockets[s].readyState = "CONNECTING" /\ sockets'[s].readyState = "OPEN"
     /\ (\A s \in 1..Len(sockets') : sockets'[s].readyState # "OPEN")
          => callBtnText' = IdleGlyph
     /\ callBtn_click
          => IF ws # 0 /\ sockets[ws].readyState = "OPEN"
               THEN /\ sockets'[ws].readyState = "CLOSING"
                    /\ Len(sockets') = Len(sockets)
               ELSE /\ Len(sockets') = Len(sockets) + 1
                    /\ ws' = Len(sockets')
                    /\ sockets'[ws'].readyState = "CONNECTING"]_vars

C16_Witness ==
  /\ lastHandler = "callBtn_click"
  /\ Len(sockets) = 2
  /\ sockets[1] = [readyState |-> "CLOSED", closeCalled |-> FALSE]
  /\ sockets[2].readyState = "CONNECTING"
  /\ ws = 2
  /\ callBtnText = IdleGlyph

\* C17: every socket that is connecting or open is the one ws references, and
\* whenever the label is the end label the socket in ws is open (so the next
\* click closes it).
C17_NoOrphanSocket ==
  /\ \A s \in ActiveSockets : s = ws
  /\ callBtnText = EndLabel => WsIsOpen

AgentIndex(r) == CHOOSE i \in AgentEntries(r) : TRUE

\* C18: every agent-side entry comes after the user entry of its send, and
\* the agent-side entries are in the order of the user entries of their sends.
C18_RepliesInSendOrder ==
  /\ \A r \in RunIds : \A u \in UserEntries(r) : \A a \in AgentEntries(r) : u < a
  /\ \A r1, r2 \in RunIds :
       (r1 < r2 /\ AgentEntries(r1) # {} /\ AgentEntries(r2) # {})
         => AgentIndex(r1) < AgentIndex(r2)

ChatErrorsOf(r) ==
  SelectSeq(consoleErrors, LAMBDA e : e.run = r /\ e.text = "Chat error:")

\* C15: each failure ends its handler run with a message or a log entry and no
\* uncaught error: a failed chat request logs and appends the error entry, a
\* refused permission alerts the denial, a failed permission or token request
\* logs, a closed connection resets the label; and the triggering user action
\* then starts a fresh attempt.
C15_FailuresHandledAndRetryable ==
  [][/\ \A r \in RunIds :
          (\/ fetch_reject(r)
           \/ \E data \in Bodies : data.kind # "object" /\ res_json(r, data))
            => /\ requests'[r].pc = "done"
               /\ chatbox' = Append(chatbox, MessageDiv("flossy", ErrorText, r))
               /\ Len(ChatErrorsOf(r)') = 1
     /\ \A r \in 1..Len(requests') : requests'[r].pc \in {"fetch", "json", "done"}
     /\ \A n \in NotifyIds :
          /\ (\E permission \in Permissions \ {"granted"} :
                requestPermission_resolve(n, permission))
               => /\ notifyRuns'[n].pc = "done"
                  /\ AlertsOf(n)' = <<[run |-> n, text |-> DeniedText]>>
          /\ (requestPermission_reject(n) \/ getToken_reject(n))
               => /\ notifyRuns'[n].pc = "done"
                  /\ Len(ErrorsOf(n)') = 1
     /\ \A n \in 1..Len(notifyRuns') :
          notifyRuns'[n].pc \in {"permission", "token", "done"}
     /\ \A s \in SocketIds :
          (sockets[s].readyState # "CLOSED" /\ sockets'[s].readyState = "CLOSED")
            => callBtnText' = IdleGlyph
     /\ (sendBtn_click /\ ~IsBlank(userInput))
          => /\ Len(requests') = Len(requests) + 1
             /\ requests'[Len(requests')].pc = "fetch"
     /\ notifyBtn_click
          => /\ Len(notifyRuns') = Len(notifyRuns) + 1
             /\ notifyRuns'[Len(notifyRuns')].pc = "permission"
     /\ (callBtn_click /\ ~(ws # 0 /\ sockets[ws].readyState = "OPEN"))
          => /\ Len(sockets') = Len(sockets) + 1
             /\ sockets'[ws'].readyState = "CONNECTING"]_vars

C15_Witness ==
  /\ lastHandler = "sendBtn_click"
  /\ Len(requests) = 2
  /\ requests[1].pc = "done"
  /\ requests[2].pc = "fetch"
  /\ Len(ChatErrorsOf(1)) = 1
  /\ \E i \in 1..Len(chatbox) : chatbox[i].run = 1 /\ chatbox[i].text = ErrorText

====
